---------------------------- MODULE Spec2Model ----------------------------
(***************************************************************************)
(* Model of change-log-o-matic (src/main.py): the manifest differ          *)
(* (compare_manifests), the disk cache (CurseForgeCache), the fetchers     *)
(* (scrape_mod_info / scrape_file_info) and the bulk orchestrators         *)
(* (scrape_all_mod_info / scrape_all_file_info).                           *)
(***************************************************************************)
EXTENDS Integers, Sequences, FiniteSets, TLC

(***************************************************************************)
(* Bounds of the model.                                                    *)
(***************************************************************************)
\* longest manifest handed to compare_manifests
MaxDiffLen == 2

\* project and file identifiers that occur in the manifests
PIDs == {1, 2, 3}
\* the files of project p: 10p and 10p+1
FIDsOf(p) == {10 * p, 10 * p + 1}

\* a manifest's FileEntry as far as the differ and the orchestrators read it
Entries == UNION {[projectID : {p}, fileID : FIDsOf(p)] : p \in PIDs}

RECURSIVE SeqsUpTo(_, _)
SeqsUpTo(S, n) ==
  IF n = 0 THEN {<< >>}
  ELSE LET shorter == SeqsUpTo(S, n - 1)
       IN  shorter \cup {Append(s, e) : s \in {t \in shorter : Len(t) = n - 1}, e \in S}

Range(s) == {s[i] : i \in DOMAIN s}

NoRepeats(s) == Cardinality(Range(s)) = Len(s)

(***************************************************************************)
(* Python dict built by a comprehension over a list: the key keeps the     *)
(* position of its first occurrence, the value is that of its last.        *)
(* A dict is modelled as [keys : sequence without repeats, val : function].*)
(***************************************************************************)
\* the dict that keeps the first value of a repeated key
RECURSIVE DictFirstWins(_)
DictFirstWins(files) ==
  IF files = << >> THEN [keys |-> << >>, val |-> << >>]
  ELSE LET n    == Len(files)
           d    == DictFirstWins(SubSeq(files, 1, n - 1))
           item == files[n]
           p    == item.projectID
       IN  IF p \in Range(d.keys)
           THEN d
           ELSE [keys |-> Append(d.keys, p),
                 val  |-> [q \in Range(d.keys) \cup {p} |->
                             IF q = p THEN item ELSE d.val[q]]]

\* main.py:36-37
RECURSIVE DictFromFiles(_)
DictFromFiles(files) ==
  IF files = << >> THEN [keys |-> << >>, val |-> << >>]
  ELSE LET n    == Len(files)
           d    == DictFromFiles(SubSeq(files, 1, n - 1))
           item == files[n]
           p    == item.projectID
       IN  IF p \in Range(d.keys)
           THEN [keys |-> d.keys,
                 val  |-> [q \in Range(d.keys) |-> IF q = p THEN item ELSE d.val[q]]]
           ELSE [keys |-> Append(d.keys, p),
                 val  |-> [q \in Range(d.keys) \cup {p} |->
                             IF q = p THEN item ELSE d.val[q]]]

\* [f(k) for k in keys if keep(k)], in the order of keys
ListComp(keys, keep(_), f(_)) ==
  LET kept == SelectSeq(keys, keep)
  IN  [i \in 1..Len(kept) |-> f(kept[i])]

\* main.py:40 with the membership test on the wrong dict
AdditionsWrongDict(old_files, new_files) ==
  LET keep(p) == p \notin Range(new_files.keys)
      f(p)    == new_files.val[p]
  IN  ListComp(new_files.keys, keep, f)

\* main.py:40
Additions(old_files, new_files) ==
  LET keep(p) == p \notin Range(old_files.keys)
      f(p)    == new_files.val[p]
  IN  ListComp(new_files.keys, keep, f)

\* main.py:43 without the filter
RemovalsUnfiltered(old_files, new_files) ==
  LET keep(p) == TRUE
      f(p)    == old_files.val[p]
  IN  ListComp(old_files.keys, keep, f)

\* main.py:43
Removals(old_files, new_files) ==
  LET keep(p) == p \notin Range(new_files.keys)
      f(p)    == old_files.val[p]
  IN  ListComp(old_files.keys, keep, f)

\* main.py:46-53 with the fileID comparison dropped
UpdatesAnyCommon(old_files, new_files) ==
  LET keep(p) == p \in Range(new_files.keys)
      f(p)    == [projectID  |-> p,
                  old_fileID |-> old_files.val[p].fileID,
                  new_fileID |-> new_files.val[p].fileID]
  IN  ListComp(old_files.keys, keep, f)

\* main.py:46-53
Updates(old_files, new_files) ==
  LET keep(p) == /\ p \in Range(new_files.keys)
                 /\ old_files.val[p].fileID # new_files.val[p].fileID
      f(p)    == [projectID  |-> p,
                  old_fileID |-> old_files.val[p].fileID,
                  new_fileID |-> new_files.val[p].fileID]
  IN  ListComp(old_files.keys, keep, f)

\* main.py:30-55; a manifest is given by its 'files' list
compare_manifests(old_manifest, new_manifest) ==
  LET old_files == DictFromFiles(old_manifest)
      new_files == DictFromFiles(new_manifest)
  IN  [additions |-> Additions(old_files, new_files),
       removals  |-> Removals(old_files, new_files),
       updates   |-> Updates(old_files, new_files)]

(***************************************************************************)
(* Lookup keys, enrichment records and URLs.                               *)
(* A project key is <<projectID>>, a file key <<projectID, fileID>>.       *)
(***************************************************************************)
Kinds == {"mod", "file"}

KeyOf(k, item) ==
  IF k = "mod" THEN <<item.projectID>> ELSE <<item.projectID, item.fileID>>

\* main.py:193-196 and 279-282: the two candidate URLs of a key, in order
Urls(key) == <<[host |-> "www", key |-> key], [host |-> "legacy", key |-> key]>>

\* main.py:224 and 308: the fallback label, Project-{project_id} or File-{file_id}
FallbackLabel(key) ==
  IF Len(key) = 1 THEN [text |-> "Project-", of |-> <<key[1]>>]
  ELSE [text |-> "File-", of |-> <<key[2]>>]

\* the stripped text of the element the selectors find in the page at url
PageTitle(url) == [text |-> "title@" \o url.host, of |-> url.key]

\* main.py:227-231 and 311-316: the record built from a name and a URL
MakeInfo(key, name, url) ==
  IF Len(key) = 1
  THEN [id |-> key[1], name |-> name, url |-> url]
  ELSE [id |-> key[2], fileName |-> name, displayName |-> name, url |-> url]

\* main.py:247-251 with the URL of the last candidate tried
MinimalInfoLastUrl(key) == MakeInfo(key, FallbackLabel(key), Urls(key)[2])

\* main.py:247-251 and 332-337: the placeholder record
MinimalInfo(key) == MakeInfo(key, FallbackLabel(key), Urls(key)[1])

\* the keys of a record, in the order of the dict literal that built it
FieldOrder(key) ==
  IF Len(key) = 1 THEN <<"id", "name", "url">>
  ELSE <<"id", "fileName", "displayName", "url">>

(***************************************************************************)
(* CurseForgeCache.  The cache directory is a function from keys to the    *)
(* state of the key's file: absent, a JSON document, or a file whose       *)
(* reading fails.  The three failures differ in what json.load/open raise: *)
(*   corrupt     - json.JSONDecodeError (caught at main.py:99),            *)
(*   unreadable  - OSError from open (caught at main.py:99),               *)
(*   undecodable - bytes that are not UTF-8: UnicodeDecodeError, which is  *)
(*                 a ValueError but neither of the two classes caught.     *)
(***************************************************************************)
Absent      == [st |-> "absent", doc |-> << >>]
Corrupt     == [st |-> "corrupt", doc |-> << >>]
Unreadable  == [st |-> "unreadable", doc |-> << >>]
Undecodable == [st |-> "undecodable", doc |-> << >>]

\* json.dump of a record: its key/value pairs in order (main.py:117, 158)
JsonDump(key, info) ==
  LET fields == FieldOrder(key)
  IN  [i \in 1..Len(fields) |-> <<fields[i], info[fields[i]]>>]

\* json.load of a document: the dict of its pairs (main.py:98, 138)
JsonLoad(doc) ==
  [f \in {doc[i][1] : i \in DOMAIN doc} |->
     doc[CHOOSE i \in DOMAIN doc : doc[i][1] = f][2]]

Stored(key, info) == [st |-> "json", doc |-> JsonDump(key, info)]

\* a record a previous run of the tool left in the cache
EarlierInfo(key) ==
  MakeInfo(key, [text |-> "title@earlier", of |-> key], Urls(key)[1])

FileStateNames == {"absent", "json", "corrupt", "unreadable", "undecodable"}

\* the file of key in the state named n
FileState(key, n) ==
  IF n = "json" THEN Stored(key, EarlierInfo(key)) ELSE [st |-> n, doc |-> << >>]

None == [none |-> TRUE]

\* main.py:82-103 and 121-143: what a get returns, what it adds to the hit and
\* miss counters of its namespace, and whether an exception leaves it
get_info(d, key) ==
  CASE d[key].st = "absent" ->
         [ret |-> None, hits |-> 0, misses |-> 1, raised |-> FALSE]
    [] d[key].st = "json" ->
         [ret |-> JsonLoad(d[key].doc), hits |-> 1, misses |-> 0, raised |-> FALSE]
    [] d[key].st = "corrupt" ->
         [ret |-> None, hits |-> 1, misses |-> 1, raised |-> FALSE]
    [] d[key].st = "unreadable" ->
         [ret |-> None, hits |-> 0, misses |-> 1, raised |-> FALSE]
    [] d[key].st = "undecodable" ->
         [ret |-> None, hits |-> 1, misses |-> 0, raised |-> TRUE]

\* what a write can do: succeed, fail in open (the file is left as it was), or
\* fail after open truncated the file: a partial document is left, which ends
\* inside a multi-byte character when ensure_ascii=False wrote one
WriteOutcomes == {"ok", "open_fail", "partial", "partial_split"}

\* a write that reports its outcome and leaves the directory as it was
set_info_drop(d, key, info, w) == d

\* main.py:105-119 and 145-160: the directory after a write with outcome w;
\* OSError is caught, so the call returns in each case
set_info(d, key, info, w) ==
  CASE w = "ok"        -> [d EXCEPT ![key] = Stored(key, info)]
    [] w = "open_fail" -> d
    [] w = "partial"   -> [d EXCEPT ![key] = Corrupt]
    [] w = "partial_split" -> [d EXCEPT ![key] = Undecodable]

\* the counters after a get on the namespace of key
Count(st, key, g) ==
  IF Len(key) = 1
  THEN [st EXCEPT !.mod_hits = @ + g.hits, !.mod_misses = @ + g.misses]
  ELSE [st EXCEPT !.file_hits = @ + g.hits, !.file_misses = @ + g.misses]

\* main.py:76-80
ZeroStats == [mod_hits |-> 0, mod_misses |-> 0, file_hits |-> 0, file_misses |-> 0]

\* Python truth of what a get returned: None is false, a record is true
Truthy(x) == x # None

(***************************************************************************)
(* What one candidate URL can answer.                                      *)
(*   ok_match        - status 200, a selector matches                      *)
(*   ok_nomatch      - status 200, no selector matches                     *)
(*   status_fail     - a status other than 200 (main.py:209)               *)
(*   transport_error - requests.RequestException (main.py:239)             *)
(*   attr_error      - status 200, AttributeError while the page is        *)
(*                     parsed or read (main.py:239)                        *)
(*   crash           - any other exception of the try block: not caught    *)
(***************************************************************************)
Responses == {"ok_match", "ok_nomatch", "status_fail", "transport_error",
              "attr_error", "crash"}

(***************************************************************************)
(* Bounds and constants of the bulk resolution.                            *)
(***************************************************************************)
\* longest manifest handed to scrape_all_mod_info / scrape_all_file_info
MaxLen == 2

\* main.py:377 and 426: ThreadPoolExecutor(max_workers=3)
MAX_WORKERS == 3

\* main.py:387 and 436: time.sleep(0.5), in tenths of a second
PACING_DELAY == 5

\* the entries of the manifests that are resolved: two files of project 1 and,
\* for the project lookups, a file of project 2, so that a manifest has at most
\* two distinct lookup keys of either kind
ResolveEntries(k) ==
  {e \in Entries : \/ e.projectID = 1
                   \/ k = "mod" /\ e.projectID = 2 /\ e.fileID = 20}

ModKeys == {KeyOf("mod", e) : e \in ResolveEntries("mod")}
FileKeys == {KeyOf("file", e) : e \in ResolveEntries("file")}

\* the entries of the archives of a tool run
MainEntries == {e \in Entries : e.fileID = 10 * e.projectID /\ e.projectID \in {1, 2}}

\* the manifest of a bulk resolution that has more keys than the pool has
\* workers: its entries are the first entries of this list
PoolFiles ==
  <<[projectID |-> 1, fileID |-> 10], [projectID |-> 1, fileID |-> 11],
    [projectID |-> 2, fileID |-> 20], [projectID |-> 2, fileID |-> 21],
    [projectID |-> 3, fileID |-> 30], [projectID |-> 3, fileID |-> 31]>>

AllKeys ==
  ModKeys \cup FileKeys \cup {KeyOf(k, e) : k \in Kinds, e \in MainEntries}
    \cup {KeyOf("file", e) : e \in Range(PoolFiles)}

\* the lookup keys of a manifest, one per entry (main.py:357 and 406)
KeyList(k, files) == [i \in DOMAIN files |-> KeyOf(k, files[i])]

Perms(S) == {q \in [1..Cardinality(S) -> S] : Range(q) = S}

\* list(project_ids) without the set(): the keys as the manifest lists them
NoDedup(keys) == {keys}

\* main.py:361 and 409: list(set(keys)); the order of a set is not specified
Dedup(keys) == Perms(Range(keys))

\* list.remove(x): the list without the first element equal to x
Remove(list, x) ==
  LET i == CHOOSE j \in DOMAIN list :
             list[j] = x /\ \A h \in DOMAIN list : list[h] = x => j <= h
  IN  SubSeq(list, 1, i - 1) \o SubSeq(list, i + 1, Len(list))

\* a task of the pool: a call scrape_mod_info(key, cache) or
\* scrape_file_info(key, cache) and the future that holds its outcome
\* got is <<what the task's cache query found>> once it has looked; seen is
\* <<the counters it read>> while its counter update is under way
NewTask(key) ==
  [key |-> key, pc |-> "queued", cand |-> 1, reqs |-> 0, ret |-> None,
   wrote |-> "no", got |-> << >>, seen |-> << >>]

\* a result not computed yet is the empty sequence, a computed one <<result>>
NoDiff == << >>

VARIABLES
  dOld,         \* the old manifest's files
  dNew,         \* the new manifest's files
  diffAB,       \* <<compare_manifests(dOld, dNew)>> once computed
  diffBA,       \* <<compare_manifests(dNew, dOld)>> once computed
  kind,         \* "mod": scrape_all_mod_info, "file": scrape_all_file_info
  manifest,     \* the 'files' list of the manifest argument
  useCache,     \* the cache argument is a CurseForgeCache (TRUE) or None
  disk,         \* the cache directory: key -> state of the key's file
  disk0,        \* the cache directory when the call in progress started
  stats,        \* the hit and miss counters of the cache object
  pc,           \* where the calling thread is
  project_ids,  \* the list project_ids / files of the orchestrator
  copy,         \* the slice project_ids[:] the partition loop iterates
  pidx,         \* the position of the partition loop in copy
  mod_info,     \* the result map mod_info / file_info
  tasks,        \* the futures, in the order of submission
  ci,           \* the position of the collecting loop in tasks
  run,          \* the number of the bulk resolution in progress
  prev,         \* what the earlier bulk resolutions returned and met
  fetchCalls,   \* calls of scrape_mod_info / scrape_file_info in this run
  log,          \* per task, the answers of the candidates it requested
  args,         \* the parsed command line of a tool run
  env,          \* what a tool run finds: the two archives, the cache directory
  mpc,          \* where main is
  exitCode,     \* the exit status of the tool run, once it has ended
  hist          \* the gets and puts made on a cache object called directly

dvars == <<dOld, dNew, diffAB, diffBA>>
cvars == <<kind, manifest, useCache>>
ovars == <<disk0, pc, project_ids, copy, pidx, mod_info, ci, run, prev>>
xvars == <<args, env, mpc, exitCode, hist>>
vars == <<dvars, cvars, disk, stats, ovars, tasks, fetchCalls, log, xvars>>

(***************************************************************************)
(* The command line (main.py:610-619) and what a tool run finds.           *)
(***************************************************************************)
\* main.py:616-617: --delay defaults to 0.5 (in tenths of a second: 5),
\* --max-workers to 3; --scrape, --no-scrape-files, --no-cache are off
DefaultArgs ==
  [scrape |-> FALSE, no_scrape_files |-> FALSE, no_cache |-> FALSE,
   delay |-> 5, max_workers |-> 3]

\* outside a tool run there are no archives
NoEnv == [old |-> << >>, new |-> << >>, makedirs |-> "ok"]

\* the process has not exited
NoExit == "running"

\* no cache object is called directly
NoHist == [ops |-> 0, lastPut |-> << >>, got |-> << >>, gets |-> << >>]

IdleMain ==
  /\ args = DefaultArgs
  /\ env = NoEnv
  /\ mpc = "off"
  /\ exitCode = NoExit

IdleCache == hist = NoHist

(***************************************************************************)
(* The differ as a state machine: the two manifests are drawn, then        *)
(* compare_manifests is called in both directions.                         *)
(***************************************************************************)
IdleDiffer ==
  /\ dOld = << >>
  /\ dNew = << >>
  /\ diffAB = NoDiff
  /\ diffBA = NoDiff

IdleResolver ==
  /\ kind = "mod"
  /\ manifest = << >>
  /\ useCache = FALSE
  /\ disk = [k \in AllKeys |-> Absent]
  /\ disk0 = disk
  /\ stats = ZeroStats
  /\ pc = "off"
  /\ project_ids = << >>
  /\ copy = << >>
  /\ pidx = 1
  /\ mod_info = << >>
  /\ tasks = << >>
  /\ ci = 1
  /\ run = 1
  /\ prev = << >>
  /\ fetchCalls = 0
  /\ log = << >>

DInit ==
  /\ dOld \in SeqsUpTo(Entries, MaxDiffLen)
  /\ dNew \in SeqsUpTo(Entries, MaxDiffLen)
  /\ diffAB = NoDiff
  /\ diffBA = NoDiff
  /\ IdleResolver
  /\ IdleMain
  /\ IdleCache

\* a call compare_manifests(old, new)
DiffForward ==
  /\ diffAB = NoDiff
  /\ pc = "off"
  /\ diffAB' = <<compare_manifests(dOld, dNew)>>
  /\ UNCHANGED <<xvars, dOld, dNew, diffBA, cvars, disk, stats, ovars, tasks, fetchCalls, log>>

\* a call compare_manifests(new, old)
DiffBackward ==
  /\ diffBA = NoDiff
  /\ pc = "off"
  /\ diffBA' = <<compare_manifests(dNew, dOld)>>
  /\ UNCHANGED <<xvars, dOld, dNew, diffAB, cvars, disk, stats, ovars, tasks, fetchCalls, log>>

DiffNext == DiffForward \/ DiffBackward

SpecDiff == DInit /\ [][DiffNext]_vars

(***************************************************************************)
(* The fetchers scrape_mod_info / scrape_file_info, as the steps of a      *)
(* task: the cache query, one request per candidate URL, the cache write.  *)
(***************************************************************************)
\* main.py:233-237 and 253-257: the record is written to the cache when there
\* is one, then returned
Built(task, info, cached) ==
  [task EXCEPT !.ret = info, !.pc = IF cached THEN "put" ELSE "done"]

\* main.py:185-190 and 272-276: the task after the cache query g
scrape_begin(task, g) ==
  IF g.raised THEN [task EXCEPT !.pc = "raised"]
  ELSE IF Truthy(g.ret) THEN [task EXCEPT !.ret = g.ret, !.pc = "done"]
  ELSE [task EXCEPT !.pc = "request"]

\* the loop over the candidates giving up at the first failure
scrape_answer_no_fallback(task, r, cached) ==
  LET url == Urls(task.key)[task.cand]
  IN  CASE r = "ok_match" -> Built(task, MakeInfo(task.key, PageTitle(url), url), cached)
        [] r = "ok_nomatch" ->
             Built(task, MakeInfo(task.key, FallbackLabel(task.key), url), cached)
        [] r \in {"status_fail", "transport_error", "attr_error"} ->
             Built(task, MinimalInfo(task.key), cached)
        [] r = "crash" -> [task EXCEPT !.pc = "raised"]

\* main.py:198-257 and 284-343: the task after candidate task.cand answered r
scrape_answer(task, r, cached) ==
  LET url == Urls(task.key)[task.cand]
  IN  CASE r = "ok_match" -> Built(task, MakeInfo(task.key, PageTitle(url), url), cached)
        [] r = "ok_nomatch" ->
             Built(task, MakeInfo(task.key, FallbackLabel(task.key), url), cached)
        [] r \in {"status_fail", "transport_error", "attr_error"} ->
             IF task.cand < Len(Urls(task.key))
             THEN [task EXCEPT !.cand = @ + 1]
             ELSE Built(task, MinimalInfo(task.key), cached)
        [] r = "crash" -> [task EXCEPT !.pc = "raised"]

\* the cache write letting an OSError leave the fetcher
scrape_put_raising(task, w) ==
  IF w = "ok" THEN [task EXCEPT !.pc = "done", !.wrote = w]
  ELSE [task EXCEPT !.pc = "raised", !.wrote = w]

\* main.py:233-237 and 253-257 (318-322, 339-343): set_mod_info / set_file_info
\* returns whatever the write did (main.py:118-119, 159-160), then the record
\* is returned
scrape_put(task, w) == [task EXCEPT !.pc = "done", !.wrote = w]

Running(t) == tasks[t].pc \in {"count", "request", "put"}

\* a pool that starts a task whenever one is queued
WorkerAlwaysFree(running) == TRUE

\* main.py:377 and 426: the pool has MAX_WORKERS threads, so a queued task is
\* taken only while fewer than MAX_WORKERS tasks are being executed
WorkerFree(running) == running < MAX_WORKERS

\* a called fetcher records the answers it gets; under the pool they are not kept
Logged(t, r) ==
  IF pc = "direct" THEN [log EXCEPT ![t] = Append(@, <<tasks[t].cand, r>>)] ELSE log

\* a free worker takes the oldest queued task and runs it up to its first
\* request: main.py:174-190 and 260-276.  The cache query, its counter update
\* included, is one step here; LoadTask and StoreTask below take the counter
\* update apart.
StartTask(t) ==
  /\ tasks[t].pc = "queued"
  /\ \A j \in 1..(t - 1) : tasks[j].pc # "queued"
  /\ WorkerFree(Cardinality({j \in DOMAIN tasks : Running(j)}))
  /\ fetchCalls' = fetchCalls + 1
  /\ IF useCache
     THEN LET g == get_info(disk, tasks[t].key)
          IN  /\ stats' = Count(stats, tasks[t].key, g)
              /\ tasks' = [tasks EXCEPT ![t] = [scrape_begin(@, g) EXCEPT !.got = <<g>>]]
     ELSE /\ tasks' = [tasks EXCEPT ![t].pc = "request"]
          /\ UNCHANGED stats
  /\ UNCHANGED <<xvars, dvars, cvars, disk, ovars, log>>

\* self.mod_hits += 1 / self.mod_misses += 1 (main.py:97, 102, 137, 142) as the
\* statement is executed: the attribute is read, one is added, the attribute
\* is written.  The counters st after a get that found g writes back the
\* counters it read as seen.
CountFrom(st, seen, key, g) ==
  IF Len(key) = 1
  THEN [st EXCEPT !.mod_hits = IF g.hits > 0 THEN seen.mod_hits + g.hits ELSE @,
                  !.mod_misses = IF g.misses > 0 THEN seen.mod_misses + g.misses ELSE @]
  ELSE [st EXCEPT !.file_hits = IF g.hits > 0 THEN seen.file_hits + g.hits ELSE @,
                  !.file_misses = IF g.misses > 0 THEN seen.file_misses + g.misses ELSE @]

\* a free worker takes the oldest queued task; the task's cache query looks at
\* the file and reads the counter it is about to increase: main.py:174-187
\* with 92-97 or 102 (260-273 with 132-137 or 142)
LoadTask(t) ==
  /\ tasks[t].pc = "queued"
  /\ \A j \in 1..(t - 1) : tasks[j].pc # "queued"
  /\ WorkerFree(Cardinality({j \in DOMAIN tasks : Running(j)}))
  /\ fetchCalls' = fetchCalls + 1
  /\ tasks' = [tasks EXCEPT ![t] =
                 IF useCache
                 THEN [@ EXCEPT !.pc = "count",
                                !.got = <<get_info(disk, tasks[t].key)>>,
                                !.seen = <<stats>>]
                 ELSE [@ EXCEPT !.pc = "request"]]
  /\ UNCHANGED <<xvars, dvars, cvars, disk, stats, ovars, log>>

\* the task writes the counter back and its cache query returns:
\* main.py:97-98 or 102-103 (137-138 or 142-143), then 187-190 (273-276)
StoreTask(t) ==
  /\ tasks[t].pc = "count"
  /\ stats' = CountFrom(stats, tasks[t].seen[1], tasks[t].key, tasks[t].got[1])
  /\ tasks' = [tasks EXCEPT ![t] =
                 [scrape_begin(@, tasks[t].got[1]) EXCEPT !.seen = << >>]]
  /\ UNCHANGED <<xvars, dvars, cvars, disk, ovars, fetchCalls, log>>

\* one iteration of the loop over the candidate URLs: main.py:198-241 (and
\* 243-251 after the last) and 284-326 (328-337)
RequestTask(t, answers) ==
  /\ tasks[t].pc = "request"
  /\ \E r \in answers :
       /\ tasks' = [tasks EXCEPT ![t] =
                      [scrape_answer(@, r, useCache) EXCEPT !.reqs = @ + 1]]
       /\ log' = Logged(t, r)
  /\ UNCHANGED <<xvars, dvars, cvars, disk, stats, ovars, fetchCalls>>

\* the cache write and the return: main.py:233-237, 253-257, 318-322, 339-343
PutTask(t, outcomes) ==
  /\ tasks[t].pc = "put"
  /\ \E w \in outcomes :
       /\ disk' = set_info(disk, tasks[t].key, tasks[t].ret, w)
       /\ tasks' = [tasks EXCEPT ![t] = scrape_put(@, w)]
  /\ UNCHANGED <<xvars, dvars, cvars, stats, ovars, fetchCalls, log>>

(***************************************************************************)
(* A direct call of a fetcher on one key.                                  *)
(***************************************************************************)
FInit ==
  /\ IdleDiffer
  /\ IdleMain
  /\ IdleCache
  /\ kind \in Kinds
  /\ manifest = << >>
  /\ useCache \in BOOLEAN
  /\ \E key \in (IF kind = "mod" THEN ModKeys ELSE FileKeys) :
       /\ tasks = <<NewTask(key)>>
       /\ \E n \in (IF useCache THEN FileStateNames ELSE {"absent"}) :
            disk = [k \in AllKeys |-> IF k = key THEN FileState(k, n) ELSE Absent]
  /\ disk0 = disk
  /\ stats = ZeroStats
  /\ pc = "direct"
  /\ project_ids = << >>
  /\ copy = << >>
  /\ pidx = 1
  /\ mod_info = << >>
  /\ ci = 1
  /\ run = 1
  /\ prev = << >>
  /\ fetchCalls = 0
  /\ log = << << >> >>

TaskStart == \E t \in DOMAIN tasks : StartTask(t)

TaskRequest == \E t \in DOMAIN tasks : RequestTask(t, Responses)

TaskPut == \E t \in DOMAIN tasks : PutTask(t, WriteOutcomes)

FetchNext == TaskStart \/ TaskRequest \/ TaskPut

SpecFetch == FInit /\ [][FetchNext]_vars

(***************************************************************************)
(* A CurseForgeCache object called directly: any sequence of gets and puts *)
(* on a cache directory that starts empty.                                 *)
(***************************************************************************)
\* most calls made on the cache object
MaxCacheOps == 3

\* the keys the calls are made on: one of each namespace
CacheKeys == {<<1>>, <<1, 10>>}

\* the records put under a key: one built from a page, and the placeholder
CacheInfos(key) ==
  {MakeInfo(key, PageTitle(Urls(key)[1]), Urls(key)[1]), MinimalInfo(key)}

Namespace(key) == IF Len(key) = 1 THEN "mod" ELSE "file"

CInit ==
  /\ IdleDiffer
  /\ IdleMain
  /\ kind = "mod"
  /\ manifest = << >>
  /\ useCache = TRUE
  /\ disk = [k \in AllKeys |-> Absent]
  /\ disk0 = disk
  /\ stats = ZeroStats
  /\ pc = "cache"
  /\ project_ids = << >>
  /\ copy = << >>
  /\ pidx = 1
  /\ mod_info = << >>
  /\ tasks = << >>
  /\ ci = 1
  /\ run = 1
  /\ prev = << >>
  /\ fetchCalls = 0
  /\ log = << >>
  /\ hist = [ops |-> 0, lastPut |-> << >>, got |-> << >>,
             gets |-> [mod |-> 0, file |-> 0]]

\* a call get_mod_info(project_id) / get_file_info(project_id, file_id):
\* main.py:82-103, 121-143
CacheGet ==
  /\ pc = "cache"
  /\ hist.ops < MaxCacheOps
  /\ \E key \in CacheKeys :
       LET g == get_info(disk, key)
       IN  /\ stats' = Count(stats, key, g)
           /\ hist' = [hist EXCEPT
                         !.ops = @ + 1,
                         !.got = <<[key |-> key, ret |-> g.ret, raised |-> g.raised,
                                    before |-> stats, file |-> disk[key].st]>>,
                         !.gets[Namespace(key)] = @ + 1]
  /\ UNCHANGED <<dvars, cvars, disk, ovars, tasks, fetchCalls, log, args, env, mpc,
                 exitCode>>

\* a call set_mod_info(project_id, info) / set_file_info(project_id, file_id,
\* info): main.py:105-119, 145-160
CachePut ==
  /\ pc = "cache"
  /\ hist.ops < MaxCacheOps
  /\ \E key \in CacheKeys : \E info \in CacheInfos(key) : \E w \in WriteOutcomes :
       /\ disk' = set_info(disk, key, info, w)
       /\ hist' = [hist EXCEPT
                     !.ops = @ + 1,
                     !.got = << >>,
                     !.lastPut = IF w = "ok" THEN (key :> info) @@ @ ELSE @]
  /\ UNCHANGED <<dvars, cvars, stats, ovars, tasks, fetchCalls, log, args, env, mpc,
                 exitCode>>

CacheNext == CacheGet \/ CachePut

SpecCache == CInit /\ [][CacheNext]_vars

(***************************************************************************)
(* The orchestrators scrape_all_mod_info / scrape_all_file_info.           *)
(***************************************************************************)
\* the partition loop that forgets project_ids.remove(pid)
partition_step_keep(ids, info, key, g) ==
  IF Truthy(g.ret)
  THEN [ids |-> ids, info |-> (key :> g.ret) @@ info]
  ELSE [ids |-> ids, info |-> info]

\* main.py:368-371 and 417-420: one iteration of the partition loop, on the
\* list of keys left to fetch and the result map
partition_step(ids, info, key, g) ==
  IF Truthy(g.ret)
  THEN [ids |-> Remove(ids, key), info |-> (key :> g.ret) @@ info]
  ELSE [ids |-> ids, info |-> info]

\* the handler leaving the loop (break) instead of going on
after_raise_break(i, n) == n + 1

\* main.py:388-389 and 437-438: the handler logs and the loop goes on with the
\* next of the n futures
after_raise(i, n) == i + 1

\* main.py:382-385 and 431-434: the result map after future.result() returned
collect_result(info, task) ==
  IF Truthy(task.ret) THEN (task.key :> task.ret) @@ info ELSE info

Finished(t) == tasks[t].pc \in {"done", "raised"}

\* main.py:357-363 and 405-411: the keys are listed and deduplicated
OrchStart ==
  /\ pc = "call"
  /\ \E order \in Dedup(KeyList(kind, manifest)) :
       /\ project_ids' = order
       /\ copy' = order
       /\ pc' = IF useCache /\ order # << >> THEN "partition" ELSE "dispatch"
  /\ pidx' = 1
  /\ mod_info' = << >>
  /\ UNCHANGED <<xvars, dvars, cvars, disk, disk0, stats, tasks, ci, run, prev,
                 fetchCalls, log>>

\* main.py:366-371 and 414-420: one iteration of the partition loop; an
\* exception of the cache query leaves the orchestrator
CacheCheck ==
  /\ pc = "partition"
  /\ LET key == copy[pidx]
         g   == get_info(disk, key)
         nxt == partition_step(project_ids, mod_info, key, g)
     IN  /\ stats' = Count(stats, key, g)
         /\ IF g.raised
            THEN /\ pc' = "aborted"
                 /\ UNCHANGED <<project_ids, mod_info, pidx>>
            ELSE /\ project_ids' = nxt.ids
                 /\ mod_info' = nxt.info
                 /\ pidx' = pidx + 1
                 /\ pc' = IF pidx = Len(copy) THEN "dispatch" ELSE "partition"
  /\ UNCHANGED <<xvars, dvars, cvars, disk, disk0, copy, tasks, ci, run, prev,
                 fetchCalls, log>>

\* main.py:374-378 and 423-427: every key left is submitted to the pool; with
\* none left the function returns
Dispatch ==
  /\ pc = "dispatch"
  /\ IF project_ids = << >>
     THEN /\ pc' = "returned"
          /\ UNCHANGED <<tasks, ci, log>>
     ELSE /\ tasks' = [i \in DOMAIN project_ids |-> NewTask(project_ids[i])]
          /\ log' = [i \in DOMAIN project_ids |-> << >>]
          /\ ci' = 1
          /\ pc' = "collect"
  /\ UNCHANGED <<xvars, dvars, cvars, disk, disk0, stats, project_ids, copy, pidx, mod_info,
                 run, prev, fetchCalls>>

\* main.py:379-389 and 428-438: future.result() of the next future, once the
\* task has finished
Collect ==
  /\ pc = "collect"
  /\ ci <= Len(tasks)
  /\ Finished(ci)
  /\ IF tasks[ci].pc = "done"
     THEN /\ mod_info' = collect_result(mod_info, tasks[ci])
          /\ pc' = "sleep"
          /\ UNCHANGED ci
     ELSE /\ ci' = after_raise(ci, Len(tasks))
          /\ UNCHANGED <<mod_info, pc>>
  /\ UNCHANGED <<xvars, dvars, cvars, disk, disk0, stats, project_ids, copy, pidx, tasks,
                 run, prev, fetchCalls, log>>

\* main.py:387 and 436: time.sleep(0.5) in the collecting loop ends
Sleep ==
  /\ pc = "sleep"
  /\ ci' = ci + 1
  /\ pc' = "collect"
  /\ UNCHANGED <<xvars, dvars, cvars, disk, disk0, stats, project_ids, copy, pidx, mod_info,
                 tasks, run, prev, fetchCalls, log>>

\* main.py:377 and 391 (426 and 440): the with block waits for the pool to
\* finish every task, then the map is returned
Return ==
  /\ pc = "collect"
  /\ ci > Len(tasks)
  /\ \A t \in DOMAIN tasks : Finished(t)
  /\ pc' = "returned"
  /\ UNCHANGED <<xvars, dvars, cvars, disk, disk0, stats, project_ids, copy, pidx, mod_info,
                 tasks, ci, run, prev, fetchCalls, log>>

\* what a finished bulk resolution leaves for the claims about the next one
Summary ==
  [result  |-> mod_info,
   fetched |-> fetchCalls,
   disk0   |-> disk0,
   raised  |-> {tasks[t].key : t \in {j \in DOMAIN tasks : tasks[j].pc = "raised"}},
   asked   |-> {tasks[t].key : t \in {j \in DOMAIN tasks : tasks[j].reqs > 0}},
   written |-> {tasks[t].key : t \in {j \in DOMAIN tasks : tasks[j].wrote # "no"}},
   unsaved |-> {tasks[t].key : t \in {j \in DOMAIN tasks :
                                        tasks[j].wrote \in WriteOutcomes \ {"ok"}}},
   exhausted |-> {tasks[t].key : t \in {j \in DOMAIN tasks :
                                          /\ tasks[j].reqs = Len(Urls(tasks[j].key))
                                          /\ tasks[j].ret = MinimalInfo(tasks[j].key)
                                          /\ tasks[j].wrote = "ok"}}]

\* the caller resolves the same manifest again with the same cache
CallAgain ==
  /\ pc = "returned"
  /\ prev = << >>
  /\ prev' = Append(prev, Summary)
  /\ run' = run + 1
  /\ disk0' = disk
  /\ pc' = "call"
  /\ project_ids' = << >>
  /\ copy' = << >>
  /\ pidx' = 1
  /\ mod_info' = << >>
  /\ tasks' = << >>
  /\ ci' = 1
  /\ fetchCalls' = 0
  /\ log' = << >>
  /\ UNCHANGED <<xvars, dvars, kind, manifest, useCache, disk, stats>>

Init ==
  /\ IdleDiffer
  /\ IdleMain
  /\ IdleCache
  /\ kind \in Kinds
  /\ manifest \in SeqsUpTo(ResolveEntries(kind), MaxLen)
  /\ useCache \in BOOLEAN
  /\ LET ks == IF useCache THEN Range(KeyList(kind, manifest)) ELSE {}
     IN  \E f \in [ks -> FileStateNames] :
           disk = [k \in AllKeys |-> IF k \in ks THEN FileState(k, f[k]) ELSE Absent]
  /\ disk0 = disk
  /\ stats = ZeroStats
  /\ pc = "call"
  /\ project_ids = << >>
  /\ copy = << >>
  /\ pidx = 1
  /\ mod_info = << >>
  /\ tasks = << >>
  /\ ci = 1
  /\ run = 1
  /\ prev = << >>
  /\ fetchCalls = 0
  /\ log = << >>

\* one bulk resolution, from any manifest and any cache directory
Next ==
  \/ OrchStart
  \/ CacheCheck
  \/ Dispatch
  \/ TaskStart
  \/ TaskRequest
  \/ TaskPut
  \/ Collect
  \/ Sleep
  \/ Return

Spec == Init /\ [][Next]_vars

\* a bulk resolution from an empty cache directory, then a second one on the
\* same manifest with the directory the first left
InitTwice ==
  /\ Init
  /\ useCache
  /\ \A k \in AllKeys : disk[k] = Absent

NextTwice == Next \/ CallAgain

SpecTwice == InitTwice /\ [][NextTwice]_vars

(***************************************************************************)
(* A bulk resolution with more keys to fetch than the pool has workers,    *)
(* the counter updates of the workers' cache queries taken statement part  *)
(* by statement part.                                                      *)
(***************************************************************************)
\* longest manifest of this bulk resolution
MaxPoolLen == 4

\* the answers and the write outcomes met (every request finds its page,
\* every write succeeds), and the entries the cache directory holds at the
\* start
PoolResponses == {"ok_match"}
PoolWriteOutcomes == {"ok"}
PoolFileStates == {"absent", "json"}

PInit ==
  /\ IdleDiffer
  /\ IdleMain
  /\ IdleCache
  /\ kind = "file"
  /\ manifest \in {SubSeq(PoolFiles, 1, n) : n \in 0..MaxPoolLen}
  /\ useCache \in BOOLEAN
  /\ LET ks == IF useCache THEN Range(KeyList(kind, manifest)) ELSE {}
     IN  \E f \in [ks -> PoolFileStates] :
           disk = [k \in AllKeys |-> IF k \in ks THEN FileState(k, f[k]) ELSE Absent]
  /\ disk0 = disk
  /\ stats = ZeroStats
  /\ pc = "call"
  /\ project_ids = << >>
  /\ copy = << >>
  /\ pidx = 1
  /\ mod_info = << >>
  /\ tasks = << >>
  /\ ci = 1
  /\ run = 1
  /\ prev = << >>
  /\ fetchCalls = 0
  /\ log = << >>

TaskLoad == \E t \in DOMAIN tasks : LoadTask(t)

TaskStore == \E t \in DOMAIN tasks : StoreTask(t)

PoolTaskRequest == \E t \in DOMAIN tasks : RequestTask(t, PoolResponses)

PoolTaskPut == \E t \in DOMAIN tasks : PutTask(t, PoolWriteOutcomes)

PoolNext ==
  \/ OrchStart
  \/ CacheCheck
  \/ Dispatch
  \/ TaskLoad
  \/ TaskStore
  \/ PoolTaskRequest
  \/ PoolTaskPut
  \/ Collect
  \/ Sleep
  \/ Return

SpecPool == PInit /\ [][PoolNext]_vars

(***************************************************************************)
(* A tool run: main (main.py:609-687).  The archives are read, the cache   *)
(* object is made, the project lookups of the old and of the new manifest  *)
(* and the file lookup of the combined manifest are called in turn, then   *)
(* the manifests are compared and the report is emitted.                   *)
(***************************************************************************)
\* longest manifest of the new archive; the old one is shorter by one
MaxMainLen == 2

\* an archive extract_manifest (main.py:16-27) raises ValueError on
BadArchive == [ok |-> FALSE, files |-> << >>]

GoodArchive(files) == [ok |-> TRUE, files |-> files]

\* the answers and the write outcomes met during a tool run
MainResponses == {"ok_match", "transport_error", "crash"}
MainWriteOutcomes == {"ok", "partial_split"}

\* main.py:643-644: the set of the projectIDs of a manifest
ProjectIdSet(files) == {files[i].projectID : i \in DOMAIN files}

\* main.py:653-659: the old manifest's entries, then the new manifest's
\* entries that are not in the list yet
RECURSIVE AppendNew(_, _)
AppendNew(all_files, files) ==
  IF files = << >> THEN all_files
  ELSE AppendNew(IF Head(files) \in Range(all_files) THEN all_files
                 ELSE Append(all_files, Head(files)),
                 Tail(files))

CombinedFiles(old, new) == AppendNew(old, new)

MInit ==
  /\ IdleDiffer
  /\ IdleCache
  /\ args \in [scrape : BOOLEAN, no_scrape_files : BOOLEAN, no_cache : BOOLEAN,
               delay : {5}, max_workers : {3}]
            \cup [scrape : {TRUE}, no_scrape_files : BOOLEAN, no_cache : BOOLEAN,
                  delay : {10}, max_workers : {1}]
  /\ env \in [old : {BadArchive} \cup
                    {GoodArchive(m) : m \in SeqsUpTo(MainEntries, MaxMainLen - 1)},
              new : {BadArchive} \cup
                    {GoodArchive(m) : m \in SeqsUpTo(MainEntries, MaxMainLen)},
              makedirs : {"ok", "fail"}]
  /\ mpc = "start"
  /\ exitCode = NoExit
  /\ kind = "mod"
  /\ manifest = << >>
  /\ useCache = FALSE
  /\ disk = [k \in AllKeys |-> Absent]
  /\ disk0 = disk
  /\ stats = ZeroStats
  /\ pc = "off"
  /\ project_ids = << >>
  /\ copy = << >>
  /\ pidx = 1
  /\ mod_info = << >>
  /\ tasks = << >>
  /\ ci = 1
  /\ run = 0
  /\ prev = << >>
  /\ fetchCalls = 0
  /\ log = << >>

\* main calls scrape_all_mod_info(files, cache) or scrape_all_file_info
BeginCall(k, files) ==
  /\ kind' = k
  /\ manifest' = files
  /\ useCache' = ~args.no_cache
  /\ pc' = "call"
  /\ disk0' = disk
  /\ project_ids' = << >>
  /\ copy' = << >>
  /\ pidx' = 1
  /\ mod_info' = << >>
  /\ tasks' = << >>
  /\ ci' = 1
  /\ run' = run + 1
  /\ fetchCalls' = 0
  /\ log' = << >>

\* main is past its calls of the orchestrators
EndCalls ==
  /\ pc' = "off"
  /\ UNCHANGED <<cvars, disk0, project_ids, copy, pidx, mod_info, tasks, ci, run,
                 fetchCalls, log>>

\* an exception reaches the handler of main: main.py:683-687
Fail ==
  /\ mpc' = "exited"
  /\ exitCode' = 1

\* main.py:621-640: the archives are read; with --scrape the cache object is
\* made unless --no-cache, and the project lookup of the old manifest starts
MainStart ==
  /\ mpc = "start"
  /\ IF ~env.old.ok \/ ~env.new.ok
     THEN /\ Fail
          /\ UNCHANGED <<dOld, dNew, cvars, ovars, tasks, fetchCalls, log>>
     ELSE /\ dOld' = env.old.files
          /\ dNew' = env.new.files
          /\ IF ~args.scrape
             THEN /\ mpc' = "diff"
                  /\ UNCHANGED <<exitCode, cvars, ovars, tasks, fetchCalls, log>>
             ELSE IF ~args.no_cache /\ env.makedirs = "fail"
             THEN /\ Fail
                  /\ UNCHANGED <<cvars, ovars, tasks, fetchCalls, log>>
             ELSE /\ BeginCall("mod", env.old.files)
                  /\ mpc' = "old_mods"
                  /\ UNCHANGED <<exitCode, prev>>
  /\ UNCHANGED <<diffAB, diffBA, disk, stats, args, env, hist>>

\* main.py:650-662: the file lookup of the combined manifest, unless
\* --no-scrape-files
FilesOrDiff ==
  IF ~args.no_scrape_files
  THEN /\ BeginCall("file", CombinedFiles(dOld, dNew))
       /\ mpc' = "files"
  ELSE /\ EndCalls
       /\ mpc' = "diff"

\* main.py:640-662: the project lookup of the old manifest has returned; the
\* new manifest's is called when the two sets of projectIDs differ
MainAfterOld ==
  /\ mpc = "old_mods"
  /\ pc = "returned"
  /\ prev' = Append(prev, Summary)
  /\ IF ProjectIdSet(dOld) # ProjectIdSet(dNew)
     THEN /\ BeginCall("mod", dNew)
          /\ mpc' = "new_mods"
     ELSE FilesOrDiff
  /\ UNCHANGED <<dvars, disk, stats, args, env, exitCode, hist>>

\* main.py:646-662: the project lookup of the new manifest has returned
MainAfterNew ==
  /\ mpc = "new_mods"
  /\ pc = "returned"
  /\ prev' = Append(prev, Summary)
  /\ FilesOrDiff
  /\ UNCHANGED <<dvars, disk, stats, args, env, exitCode, hist>>

\* main.py:662-670: the file lookup has returned
MainAfterFiles ==
  /\ mpc = "files"
  /\ pc = "returned"
  /\ prev' = Append(prev, Summary)
  /\ EndCalls
  /\ mpc' = "diff"
  /\ UNCHANGED <<dvars, disk, stats, args, env, exitCode, hist>>

\* main.py:683-687: an exception left a bulk resolution; main prints it and
\* exits with status 1
MainRaise ==
  /\ mpc \in {"old_mods", "new_mods", "files"}
  /\ pc = "aborted"
  /\ Fail
  /\ UNCHANGED <<dvars, cvars, disk, stats, ovars, tasks, fetchCalls, log, args, env,
                 hist>>

\* main.py:672-681: the manifests are compared and the report is emitted
MainReport ==
  /\ mpc = "diff"
  /\ diffAB' = <<compare_manifests(dOld, dNew)>>
  /\ mpc' = "exited"
  /\ exitCode' = 0
  /\ UNCHANGED <<dOld, dNew, diffBA, cvars, disk, stats, ovars, tasks, fetchCalls, log,
                 args, env, hist>>

MainTaskRequest == \E t \in DOMAIN tasks : RequestTask(t, MainResponses)

MainTaskPut == \E t \in DOMAIN tasks : PutTask(t, MainWriteOutcomes)

MainNext ==
  \/ MainStart
  \/ OrchStart
  \/ CacheCheck
  \/ Dispatch
  \/ TaskStart
  \/ MainTaskRequest
  \/ MainTaskPut
  \/ Collect
  \/ Sleep
  \/ Return
  \/ MainAfterOld
  \/ MainAfterNew
  \/ MainAfterFiles
  \/ MainRaise
  \/ MainReport

SpecMain == MInit /\ [][MainNext]_vars

(***************************************************************************)
(* The claims about the bulk resolution.                                   *)
(***************************************************************************)
\* the unique lookup keys of the manifest
KeySet == Range(KeyList(kind, manifest))

RaisedTasks == {t \in DOMAIN tasks : tasks[t].pc = "raised"}

\* the keys whose file held a record when the call started
CachedKeys == {k \in KeySet : useCache /\ disk0[k].st = "json"}

\* C1: for every manifest and every initial cache state, if no dispatched fetch
\* raises, the bulk resolution returns a map whose keys are exactly the unique
\* keys of the manifest.
C1_Completeness ==
  /\ pc # "aborted"
  /\ (pc = "returned" /\ RaisedTasks = {}) => DOMAIN mod_info = KeySet

\* C2: if the fetch task of exactly one dispatched key raises, the orchestrator
\* still returns, the map lacks only that key (N-1 entries for N unique keys),
\* and every other key has the record its own fetch returned or its cache
\* entry held.
C2_FaultIsolation ==
  /\ RaisedTasks # {} => pc # "aborted"
  /\ (pc = "returned" /\ Cardinality(RaisedTasks) = 1) =>
       LET bad == CHOOSE t \in RaisedTasks : TRUE
       IN  /\ DOMAIN mod_info = KeySet \ {tasks[bad].key}
           /\ Cardinality(DOMAIN mod_info) = Cardinality(KeySet) - 1
           /\ \A t \in DOMAIN tasks \ {bad} :
                /\ tasks[t].pc = "done"
                /\ mod_info[tasks[t].key] = tasks[t].ret
           /\ \A k \in CachedKeys : mod_info[k] = EarlierInfo(k)

C2_Witness ==
  /\ pc = "returned"
  /\ Cardinality(KeySet) = 2
  /\ Len(tasks) = 2
  /\ tasks[1].pc = "raised"
  /\ tasks[2].pc = "done"
  /\ DOMAIN mod_info = {tasks[2].key}
  /\ mod_info[tasks[2].key].url.host = "legacy"

\* C3 as stated: a second bulk resolution on the same keys, with the cache the
\* first (started on an empty cache) left, calls no fetcher and returns the map
\* the first returned.
C3_WarmCacheIdempotent ==
  (run = 2 /\ pc = "returned") =>
    /\ fetchCalls = 0
    /\ mod_info = prev[1].result

\* C3 amended: the second bulk resolution calls the fetcher for exactly the
\* keys whose task raised or whose cache write failed in the first, and returns
\* for every other key the record the first returned; so when no task raised
\* and every write succeeded in the first, it calls no fetcher and returns the
\* map the first returned.
C3_WarmCacheIdempotentWhenSaved ==
  (run = 2 /\ pc = "returned") =>
    LET lost == prev[1].raised \cup prev[1].unsaved
    IN  /\ {tasks[t].key : t \in DOMAIN tasks} = lost
        /\ fetchCalls = Cardinality(lost)
        /\ \A k \in KeySet \ lost :
             /\ k \in DOMAIN mod_info
             /\ k \in DOMAIN prev[1].result
             /\ mod_info[k] = prev[1].result[k]
        /\ lost = {} => (fetchCalls = 0 /\ mod_info = prev[1].result)

C3_Witness ==
  /\ run = 2
  /\ pc = "returned"
  /\ prev[1].disk0 = [k \in AllKeys |-> Absent]
  /\ prev[1].raised = {}
  /\ prev[1].unsaved = {}
  /\ prev[1].fetched = 2
  /\ Cardinality(KeySet) = 2
  /\ fetchCalls = 0
  /\ mod_info = prev[1].result
  /\ DOMAIN mod_info = KeySet

\* C4: the keys submitted to the pool in one call are pairwise distinct and are
\* exactly the unique keys of the manifest for which the cache held no record.
C4_UniqueDispatch ==
  pc \in {"collect", "sleep", "returned"} =>
    LET sent == [t \in DOMAIN tasks |-> tasks[t].key]
    IN  /\ NoRepeats(sent)
        /\ Range(sent) = KeySet \ CachedKeys

\* a key listed twice is submitted once
C4_Witness ==
  /\ pc = "collect"
  /\ Len(manifest) = 2
  /\ KeyList(kind, manifest)[1] = KeyList(kind, manifest)[2]
  /\ manifest[1] # manifest[2]
  /\ Len(tasks) = 1
  /\ tasks[1].key \in KeySet

\* C12: the pacing delay is taken inside the worker task after its own fetch,
\* so it holds back neither another task nor the collection of another task's
\* result: while a delay runs, no other task's finished result waits for it.
C12_PerTaskPacing ==
  pc = "sleep" => \A t \in DOMAIN tasks : t > ci => ~Finished(t)

\* C14: the bulk resolution returns (it does not end in an exception), and
\* when it returns every dispatched task has completed or failed: none is
\* queued or running.
C14_BlocksUntilQuiescence ==
  /\ pc # "aborted"
  /\ pc = "returned" => \A t \in DOMAIN tasks : Finished(t)

FailedWrites == WriteOutcomes \ {"ok"}

\* C16: when the cache write of a fetch fails, nothing is raised: the task
\* ends normally with the record it built, the bulk resolution goes on, and
\* the map it returns holds that record under the key.
C16_WriteFailureNonFatal ==
  \A t \in DOMAIN tasks :
    tasks[t].wrote \in FailedWrites =>
      /\ tasks[t].pc = "done"
      /\ tasks[t].ret # None
      /\ tasks[t].ret.id = tasks[t].key[Len(tasks[t].key)]
      /\ tasks[t].ret.url \in Range(Urls(tasks[t].key))
      /\ pc \in {"collect", "sleep", "returned"}
      /\ pc = "returned" =>
           /\ tasks[t].key \in DOMAIN mod_info
           /\ mod_info[tasks[t].key] = tasks[t].ret

C16_Witness ==
  /\ pc = "returned"
  /\ Len(tasks) = 2
  /\ tasks[1].wrote = "open_fail"
  /\ tasks[2].wrote = "partial"
  /\ disk[tasks[1].key] = Absent
  /\ disk[tasks[2].key] = Corrupt
  /\ DOMAIN mod_info = KeySet
  /\ mod_info[tasks[1].key] = tasks[1].ret
  /\ mod_info[tasks[1].key].url.host = "www"

\* the task is in its cache write (between the call of set_*_info and its return)
Writing(t) == tasks[t].pc = "put"

\* the task has its cache query before it
Reading(t) == useCache /\ tasks[t].pc = "queued"

\* C17: in one bulk resolution no two tasks write the same cache file, no task
\* reads the entry of a key another task writes, and the orchestrator's own
\* cache queries are over before any task writes.
C17_NoContention ==
  /\ \A t, u \in DOMAIN tasks :
       (t # u /\ tasks[t].key = tasks[u].key) =>
         /\ ~(Writing(t) /\ Writing(u))
         /\ ~(Reading(t) /\ Writing(u))
  /\ pc = "partition" => \A t \in DOMAIN tasks : ~Writing(t)

\* two tasks write at the same time, each its own file
C17_Witness ==
  /\ useCache
  /\ Len(tasks) = 2
  /\ Writing(1)
  /\ Writing(2)
  /\ tasks[1].key # tasks[2].key

(***************************************************************************)
(* The claims about the fetchers.                                          *)
(***************************************************************************)
Answers(t) == [i \in DOMAIN log[t] |-> log[t][i][2]]

SuccessStatus == {"ok_match", "ok_nomatch", "attr_error"}
Extracted == {"ok_match", "ok_nomatch"}

IsInfo(key, x) ==
  /\ x # None
  /\ DOMAIN x = Range(FieldOrder(key))
  /\ x.id = key[Len(key)]

\* C5: whatever the network, the page extraction and the cache do (transport
\* error, non-success status, no selector match, cache read or write failure),
\* a fetcher returns a record and raises nothing.
C5_FetcherNeverRaises ==
  \A t \in DOMAIN tasks :
    (pc = "direct" /\ "crash" \notin Range(Answers(t))) =>
      /\ tasks[t].pc # "raised"
      /\ tasks[t].pc = "done" => IsInfo(tasks[t].key, tasks[t].ret)

\* the first position of an answer of the set S in the answers a
FirstIn(a, S) == CHOOSE i \in DOMAIN a : a[i] \in S /\ \A j \in 1..(i - 1) : a[j] \notin S

\* C6 as stated: the candidates are requested in order, and the record returned
\* is built from the first candidate that answered with success status: it has
\* that candidate's URL and no later candidate was requested.
C6_OrderedFallback ==
  \A t \in DOMAIN tasks :
    (pc = "direct" /\ tasks[t].pc = "done" /\ Range(Answers(t)) \cap SuccessStatus # {}) =>
      LET a == Answers(t)
          i == FirstIn(a, SuccessStatus)
      IN  /\ \A j \in DOMAIN log[t] : log[t][j][1] = j
          /\ tasks[t].ret.url = Urls(tasks[t].key)[i]
          /\ Len(a) = i

\* C6 amended: the candidates are requested in order, and the record returned
\* is built from the first candidate that answered with success status and
\* whose page was extracted without an AttributeError; every candidate before
\* it failed (non-success status, transport error or AttributeError) and no
\* candidate after it was requested.
C6_OrderedFallbackExtracted ==
  \A t \in DOMAIN tasks :
    /\ (pc = "direct" /\ tasks[t].pc = "done" /\ Answers(t) # << >>) =>
         \/ Answers(t)[Len(Answers(t))] \in Extracted
         \/ Len(Answers(t)) = Len(Urls(tasks[t].key))
    /\ (pc = "direct" /\ tasks[t].pc = "done" /\ Range(Answers(t)) \cap Extracted # {}) =>
      LET a   == Answers(t)
          i   == FirstIn(a, Extracted)
          key == tasks[t].key
          url == [host |-> IF i = 1 THEN "www" ELSE "legacy", key |-> key]
          nm  == IF a[i] = "ok_match"
                 THEN [text |-> "title@" \o url.host, of |-> key]
                 ELSE IF Len(key) = 1 THEN [text |-> "Project-", of |-> <<key[1]>>]
                 ELSE [text |-> "File-", of |-> <<key[2]>>]
      IN  /\ \A j \in DOMAIN log[t] : log[t][j][1] = j
          /\ \A j \in 1..(i - 1) :
               a[j] \in {"status_fail", "transport_error", "attr_error"}
          /\ Len(a) = i
          /\ tasks[t].ret.url = url
          /\ IF Len(key) = 1
             THEN tasks[t].ret = [id |-> key[1], name |-> nm, url |-> url]
             ELSE tasks[t].ret = [id |-> key[2], fileName |-> nm,
                                  displayName |-> nm, url |-> url]

\* the first candidate answers with a non-success status, the second with a
\* page: the record is built from the second
C6_Witness ==
  /\ pc = "direct"
  /\ tasks[1].pc = "done"
  /\ Answers(1) = <<"status_fail", "ok_match">>
  /\ tasks[1].ret.url.host = "legacy"

\* the placeholder of a key, written out
Placeholder(key) ==
  IF Len(key) = 1
  THEN [id   |-> key[1],
        name |-> [text |-> "Project-", of |-> <<key[1]>>],
        url  |-> [host |-> "www", key |-> key]]
  ELSE [id          |-> key[2],
        fileName    |-> [text |-> "File-", of |-> <<key[2]>>],
        displayName |-> [text |-> "File-", of |-> <<key[2]>>],
        url         |-> [host |-> "www", key |-> key]]

Exhausted(t) ==
  /\ Len(log[t]) = 2
  /\ Range(Answers(t)) \subseteq {"status_fail", "transport_error"}

ProjectsOf(m) == {m[i].projectID : i \in DOMAIN m}

LastIndexOf(m, p) ==
  CHOOSE i \in DOMAIN m :
    /\ m[i].projectID = p
    /\ \A j \in DOMAIN m : m[j].projectID = p => j <= i

ByProject(m) == [p \in ProjectsOf(m) |-> m[LastIndexOf(m, p)]]

UpdateRecord(o, n, p) ==
  [projectID |-> p, old_fileID |-> o[p].fileID, new_fileID |-> n[p].fileID]

\* C8: compare_manifests(old, new) returns as additions exactly the entries of
\* newByProject whose projectID is not in oldByProject, as removals exactly the
\* entries of oldByProject whose projectID is not in newByProject, and as
\* updates exactly one record {projectID, old_fileID, new_fileID} per projectID
\* in both maps with different fileID, none for equal fileID.
C8_DifferMatchesDefinition ==
  diffAB # NoDiff =>
    LET r == diffAB[1]
        o == ByProject(dOld)
        n == ByProject(dNew)
    IN  /\ NoRepeats(r.additions)
        /\ Range(r.additions) = {n[p] : p \in DOMAIN n \ DOMAIN o}
        /\ NoRepeats(r.removals)
        /\ Range(r.removals) = {o[p] : p \in DOMAIN o \ DOMAIN n}
        /\ NoRepeats(r.updates)
        /\ Range(r.updates) =
             {UpdateRecord(o, n, p) :
                p \in {q \in DOMAIN o \cap DOMAIN n : o[q].fileID # n[q].fileID}}

\* the example of C8: old {1:10, 2:20}, new {2:21, 3:30}
C8_Witness ==
  /\ dOld = <<[projectID |-> 1, fileID |-> 10], [projectID |-> 2, fileID |-> 20]>>
  /\ dNew = <<[projectID |-> 2, fileID |-> 21], [projectID |-> 3, fileID |-> 30]>>
  /\ diffAB = <<[additions |-> <<[projectID |-> 3, fileID |-> 30]>>,
                 removals  |-> <<[projectID |-> 1, fileID |-> 10]>>,
                 updates   |-> <<[projectID |-> 2, old_fileID |-> 20,
                                  new_fileID |-> 21]>>]>>

ProjectIDsIn(list) == {list[i].projectID : i \in DOMAIN list}

\* C9: the projectIDs of compare_manifests(A, B).additions are those of
\* compare_manifests(B, A).removals, and the projectIDs of
\* compare_manifests(A, B).removals are those of compare_manifests(B, A).additions.
C9_DifferSymmetry ==
  (diffAB # NoDiff /\ diffBA # NoDiff) =>
    /\ ProjectIDsIn(diffAB[1].additions) = ProjectIDsIn(diffBA[1].removals)
    /\ ProjectIDsIn(diffAB[1].removals) = ProjectIDsIn(diffBA[1].additions)

C9_Witness ==
  /\ diffAB # NoDiff
  /\ diffBA # NoDiff
  /\ diffAB[1].additions # << >>
  /\ diffAB[1].removals # << >>
  /\ ProjectsOf(dOld) \cap ProjectsOf(dNew) # {}

\* C10: for a manifest A with unique projectIDs, compare_manifests(A, A) has
\* empty additions, empty removals and empty updates.
C10_SelfDiffEmpty ==
  (diffAB # NoDiff /\ dOld = dNew /\ Cardinality(ProjectsOf(dOld)) = Len(dOld)) =>
    /\ diffAB[1].additions = << >>
    /\ diffAB[1].removals = << >>
    /\ diffAB[1].updates = << >>

C10_Witness ==
  /\ diffAB # NoDiff
  /\ dOld = dNew
  /\ Len(dOld) >= 2
  /\ Cardinality(ProjectsOf(dOld)) = Len(dOld)
  /\ diffAB[1] = [additions |-> << >>, removals |-> << >>, updates |-> << >>]

\* the entry at position i of m is not the last of its projectID and differs
\* from the last
Superseded(m, i) == m[i] # m[LastIndexOf(m, m[i].projectID)]

OnlySuperseded(m) ==
  {m[i] : i \in {j \in DOMAIN m : Superseded(m, j)}} \
  {m[i] : i \in {j \in DOMAIN m : ~Superseded(m, j)}}

\* C11: when a manifest lists a projectID more than once, only its last
\* occurrence counts, in the old and in the new manifest: an earlier
\* occurrence is never among the additions or removals, and an update is
\* reported for a projectID of both manifests exactly when the fileIDs of its
\* last occurrences differ, with those two fileIDs.
C11_LastWins ==
  diffAB # NoDiff =>
    LET r == diffAB[1]
    IN  /\ Range(r.additions) \cap OnlySuperseded(dNew) = {}
        /\ Range(r.removals) \cap OnlySuperseded(dOld) = {}
        /\ \A p \in ProjectsOf(dOld) \cap ProjectsOf(dNew) :
             LET lo == dOld[LastIndexOf(dOld, p)].fileID
                 ln == dNew[LastIndexOf(dNew, p)].fileID
                 up == {i \in DOMAIN r.updates : r.updates[i].projectID = p}
             IN  /\ (up # {}) <=> (lo # ln)
                 /\ \A i \in up : /\ r.updates[i].old_fileID = lo
                                  /\ r.updates[i].new_fileID = ln
        /\ \A p \in ProjectsOf(dNew) \ ProjectsOf(dOld) :
             dNew[LastIndexOf(dNew, p)] \in Range(r.additions)
        /\ \A p \in ProjectsOf(dOld) \ ProjectsOf(dNew) :
             dOld[LastIndexOf(dOld, p)] \in Range(r.removals)

\* <<1:10, 1:11>> against <<1:10>>: the update 11 -> 10 is reported, though the
\* first occurrence has the new manifest's fileID
C11_Witness ==
  /\ dOld = <<[projectID |-> 1, fileID |-> 10], [projectID |-> 1, fileID |-> 11]>>
  /\ dNew = <<[projectID |-> 1, fileID |-> 10]>>
  /\ diffAB = <<[additions |-> << >>, removals |-> << >>,
                 updates |-> <<[projectID |-> 1, old_fileID |-> 11,
                                new_fileID |-> 10]>>]>>

(***************************************************************************)
(* The claims about the cache object.                                      *)
(***************************************************************************)
\* C15: from an empty directory, after any gets and puts, a get raises
\* nothing; it returns a record only if a put of that key succeeded earlier,
\* and then the record of the latest such put; it returns None when there is
\* no entry or the entry is unreadable or corrupt.
C15_GetSound ==
  hist.got # << >> =>
    LET g == hist.got[1]
    IN  /\ ~g.raised
        /\ g.ret # None =>
             /\ g.key \in DOMAIN hist.lastPut
             /\ g.ret = hist.lastPut[g.key]
        /\ g.file # "json" => g.ret = None

\* C19: no counter decreases; a get adds one to exactly one counter of its
\* namespace, the hit counter when it returns a record and the miss counter
\* when it returns None (a corrupt entry included); so the hits and misses of
\* a namespace add up to the number of gets on it.
C19_StatsAccounting ==
  /\ hist.got # << >> =>
       LET g    == hist.got[1]
           hit  == IF g.ret # None THEN 1 ELSE 0
           miss == 1 - hit
           mod  == IF Len(g.key) = 1 THEN 1 ELSE 0
       IN  /\ stats.mod_hits = g.before.mod_hits + mod * hit
           /\ stats.mod_misses = g.before.mod_misses + mod * miss
           /\ stats.file_hits = g.before.file_hits + (1 - mod) * hit
           /\ stats.file_misses = g.before.file_misses + (1 - mod) * miss
  /\ pc = "cache" =>
       /\ stats.mod_hits + stats.mod_misses = hist.gets.mod
       /\ stats.file_hits + stats.file_misses = hist.gets.file

(***************************************************************************)
(* The claims about a tool run.                                            *)
(***************************************************************************)
\* C13: the pool width and the pacing delay of the bulk resolutions are the
\* configured ones (--max-workers, --delay; 3 and 0.5 by default): no more
\* fetches are in flight than the configured width, and the delay taken is
\* the configured delay.
C13_ConfigHonoured ==
  /\ Cardinality({t \in DOMAIN tasks : Running(t)}) <= args.max_workers
  /\ pc = "sleep" => PACING_DELAY = args.delay

\* C18: a tool run exits non-zero exactly on an input error (an invalid
\* archive or manifest); with valid inputs, whatever fails on the enrichment
\* path (cache directory, cache entry, network, a task), it ends with status 0
\* and reports the additions, removals and updates of the two manifests, as a
\* run without enrichment does.
C18_OnlyInputErrorsAbort ==
  mpc = "exited" =>
    /\ exitCode = 1 <=> (~env.old.ok \/ ~env.new.ok)
    /\ (env.old.ok /\ env.new.ok) =>
         /\ exitCode = 0
         /\ diffAB = <<compare_manifests(env.old.files, env.new.files)>>

\* the bulk resolutions of the tool run that asked the remote source for key
\* (wrote the cache file of key): the finished ones and the one in progress
AskedIn(key) ==
  Cardinality({i \in DOMAIN prev : key \in prev[i].asked}) +
  Cardinality({t \in DOMAIN tasks : pc # "off" /\ tasks[t].key = key /\ tasks[t].reqs > 0})

WrittenIn(key) ==
  Cardinality({i \in DOMAIN prev : key \in prev[i].written}) +
  Cardinality({t \in DOMAIN tasks : pc # "off" /\ tasks[t].key = key /\ tasks[t].wrote # "no"})

\* C20: over all the bulk resolutions of one tool run, each lookup key is
\* fetched from the remote source by at most one task and its cache entry is
\* written by at most one task, with the cache enabled or disabled, whatever
\* the two manifests share.
C20_AtMostOneFetchPerKey ==
  mpc # "off" =>
    \A key \in AllKeys :
      /\ AskedIn(key) <= 1
      /\ WrittenIn(key) <= 1

(***************************************************************************)
(* The differ's outputs as classes of projectIDs.                          *)
(***************************************************************************)
\* the projectIDs of a list, one per element, in order
ProjectIDList(list) == [i \in DOMAIN list |-> list[i].projectID]

\* the projectIDs of both manifests whose last occurrences have equal fileID
UnchangedIn(old, new) ==
  {p \in ProjectsOf(old) \cap ProjectsOf(new) :
     old[LastIndexOf(old, p)].fileID = new[LastIndexOf(new, p)].fileID}

\* C23: for all manifests old and new (duplicates allowed), the projectIDs of
\* additions, of removals and of updates are pairwise disjoint, none occurs
\* twice within one list, and every projectID of either manifest is in exactly
\* one of additions, removals, updates and unchanged (in both manifests with
\* equal authoritative fileID); the lists hold no other projectID.
C23_DifferPartition ==
  diffAB # NoDiff =>
    LET r   == diffAB[1]
        add == ProjectIDsIn(r.additions)
        rem == ProjectIDsIn(r.removals)
        upd == ProjectIDsIn(r.updates)
        unc == UnchangedIn(dOld, dNew)
    IN  /\ add \cap rem = {}
        /\ add \cap upd = {}
        /\ rem \cap upd = {}
        /\ NoRepeats(ProjectIDList(r.additions))
        /\ NoRepeats(ProjectIDList(r.removals))
        /\ NoRepeats(ProjectIDList(r.updates))
        /\ add \cup rem \cup upd \cup unc = ProjectsOf(dOld) \cup ProjectsOf(dNew)
        /\ \A p \in ProjectsOf(dOld) \cup ProjectsOf(dNew) :
             Cardinality({c \in {"a", "r", "u", "n"} :
                            \/ c = "a" /\ p \in add
                            \/ c = "r" /\ p \in rem
                            \/ c = "u" /\ p \in upd
                            \/ c = "n" /\ p \in unc}) = 1

\* a manifest that lists a project twice: old <<1:10, 1:11>> against new
\* <<1:11, 2:20>> leaves project 1 unchanged and adds project 2
C23_Witness ==
  /\ diffAB # NoDiff
  /\ Len(dOld) = 2
  /\ Cardinality(ProjectsOf(dOld)) = 1
  /\ dOld[1] # dOld[2]
  /\ UnchangedIn(dOld, dNew) = ProjectsOf(dOld)
  /\ ProjectIDsIn(diffAB[1].additions) = ProjectsOf(dNew) \ ProjectsOf(dOld)
  /\ diffAB[1].additions # << >>
  /\ diffAB[1].removals = << >>
  /\ diffAB[1].updates = << >>

(***************************************************************************)
(* The claims about the result map and the cache directory.                *)
(***************************************************************************)
\* C22: when a cache is supplied and no cache write of the call fails, at the
\* return of a bulk resolution every key of the returned map has a cache
\* entry, and a get on that key returns (raising nothing) a record equal to
\* the map's record, for the keys resolved from the cache and for the keys
\* fetched in this call, placeholders included.
C22_ResultCacheAgreement ==
  (/\ pc = "returned"
   /\ useCache
   /\ \A t \in DOMAIN tasks : tasks[t].wrote \notin FailedWrites) =>
    \A k \in DOMAIN mod_info :
      /\ disk[k].st # "absent"
      /\ ~get_info(disk, k).raised
      /\ get_info(disk, k).ret = mod_info[k]

\* one key comes from the cache, the other is fetched in this call, every
\* candidate fails and the placeholder is written
C22_Witness ==
  /\ pc = "returned"
  /\ useCache
  /\ Cardinality(KeySet) = 2
  /\ Cardinality(CachedKeys) = 1
  /\ Len(tasks) = 1
  /\ tasks[1].reqs = 2
  /\ tasks[1].wrote = "ok"
  /\ DOMAIN mod_info = KeySet
  /\ mod_info[tasks[1].key] = Placeholder(tasks[1].key)
  /\ disk0[tasks[1].key].st # "json"
  /\ \A k \in CachedKeys : mod_info[k] = EarlierInfo(k) /\ disk[k] = disk0[k]

\* C24: once a fetch has exhausted its candidates and written the placeholder
\* to the cache, a later bulk resolution on the same cache directory submits
\* no fetch for that key, so the remote source is not asked again whatever it
\* would answer now; the entry keeps the placeholder, and the lookup returns it.
C24_PlaceholderSticky ==
  run = 2 =>
    \A k \in prev[1].exhausted :
      /\ \A t \in DOMAIN tasks : tasks[t].key # k
      /\ disk[k].st = "json"
      /\ JsonLoad(disk[k].doc) = Placeholder(k)
      /\ pc \in {"dispatch", "collect", "sleep", "returned"} =>
           /\ k \in DOMAIN mod_info
           /\ mod_info[k] = Placeholder(k)

\* the first run exhausted the candidates of one key and could not store the
\* record of the other; the second run fetches the other key again, with
\* success, and takes the placeholder from the cache
C24_Witness ==
  /\ run = 2
  /\ pc = "returned"
  /\ Cardinality(KeySet) = 2
  /\ Cardinality(prev[1].exhausted) = 1
  /\ prev[1].unsaved = KeySet \ prev[1].exhausted
  /\ Len(tasks) = 1
  /\ tasks[1].key \notin prev[1].exhausted
  /\ tasks[1].reqs = 1
  /\ tasks[1].pc = "done"
  /\ DOMAIN mod_info = KeySet
  /\ \A k \in prev[1].exhausted : mod_info[k] = Placeholder(k)
  /\ mod_info[tasks[1].key] # Placeholder(tasks[1].key)

(***************************************************************************)
(* The claims about the pool.                                              *)
(***************************************************************************)
Executing == {t \in DOMAIN tasks : Running(t)}

Queued == {t \in DOMAIN tasks : tasks[t].pc = "queued"}

\* C21: at every moment of a bulk resolution at most 3 fetch tasks are being
\* executed, however many keys are left to fetch; the other keys' tasks stay
\* queued, none of them having looked at the cache or asked the remote source.
C21_BoundedConcurrency ==
  /\ Cardinality(Executing) <= 3
  /\ \A t \in Queued :
       /\ tasks[t].got = << >>
       /\ tasks[t].reqs = 0
       /\ tasks[t].wrote = "no"

\* four keys to fetch: three tasks are being executed and the fourth waits
C21_Witness ==
  /\ pc = "collect"
  /\ Len(tasks) = 4
  /\ Cardinality(Executing) = 3
  /\ Cardinality(Queued) = 1
  /\ \A t \in Executing : tasks[t].reqs >= 1

\* the cache queries of the bulk resolution that have returned: those of the
\* partition loop, one per key looked at, and those of the tasks
PartitionGets == IF useCache THEN {copy[i] : i \in 1..(pidx - 1)} ELSE {}

TaskGets == {t \in DOMAIN tasks : tasks[t].got # << >> /\ tasks[t].pc # "count"}

GetsWithRecord ==
  Cardinality({k \in PartitionGets : get_info(disk0, k).ret # None}) +
  Cardinality({t \in TaskGets : tasks[t].got[1].ret # None})

GetsAbsent ==
  Cardinality({k \in PartitionGets : get_info(disk0, k).ret = None}) +
  Cardinality({t \in TaskGets : tasks[t].got[1].ret = None})

\* C25: the worker tasks of a bulk resolution query the shared cache object
\* concurrently and no counter update is lost: when the call has returned,
\* the miss counter of the namespace has grown by the number of cache queries
\* that returned absent and the hit counter by the number that returned a
\* record.
C25_CountersExact ==
  (pc = "returned" /\ useCache) =>
    /\ stats.file_misses + stats.mod_misses = GetsAbsent
    /\ stats.file_hits + stats.mod_hits = GetsWithRecord
=============================================================================
